---------------------------- MODULE Spec2Model ----------------------------
(***************************************************************************)
(* The client-side event-tracking pipeline of the storefront: the          *)
(* readiness poller (waitForGTM), the scroll tracker (useScrollTracking),  *)
(* the product / collection page view emitters and the add-to-cart         *)
(* handler, all writing to window.dataLayer.                               *)
(*                                                                         *)
(* The browser is single threaded: every action below is one task of the   *)
(* event loop (an effect, a timer callback, a scroll event, a click)       *)
(* together with the promise reactions (.then callbacks) it triggers,      *)
(* which run as microtasks before any other task.                          *)
(***************************************************************************)
EXTENDS Integers, Sequences, FiniteSets, TLC

(***************************************************************************)
(* Bounds of the model.                                                    *)
(***************************************************************************)
\* maxAttempts of the scroll tracker's poller (100 in the source), scaled down
ScrollMaxAttempts == 1
\* maxAttempts of the page emitters' pollers (50 in the source), scaled down
PageMaxAttempts == 1
\* largest maxAttempts the stand-alone poller is started with
MaxAttemptsCap == 3
\* invocations of the stand-alone poller over a whole behaviour
MaxWaits == 2
\* renders that run effects (mounts and re-renders) over a whole behaviour
MaxRuns == 2
\* scrollHeight - clientHeight of a scrollable page, in scroll units
PageHeight == 2
\* add-to-cart clicks over a whole behaviour
MaxClicks == 1
\* scrollHeight - clientHeight of a long page: steps of 20 percent
LongPageHeight == 5

(***************************************************************************)
(* JavaScript values.                                                      *)
(***************************************************************************)
Null == "null"
Undefined == "undefined"

\* ToBoolean of a string-or-nullish value
Truthy(v) == v \notin {Null, Undefined, ""}
\* a || b
Or(a, b) == IF Truthy(a) THEN a ELSE b
\* a ?? b
Coalesce(a, b) == IF a \in {Null, Undefined} THEN b ELSE a

\* An object is a record with tag "object"; a reference holding null or
\* undefined is one of the two records below.  A property the object does
\* not have has the value Undefined (UndefinedObj), which is what reading
\* it yields.
NullObj == [tag |-> "null"]
UndefinedObj == [tag |-> "undefined"]
\* o?.f, f a scalar property
Opt(o, f) == IF o.tag = "object" THEN o[f] ELSE Undefined
\* o?.f, f an object property
OptObj(o, f) == IF o.tag = "object" THEN o[f] ELSE UndefinedObj
\* the object {}
EmptyObject == [f \in {} |-> Undefined]
\* {...o}: the own enumerable properties of o; a Promise has none
Spread(o) == IF "tag" \in DOMAIN o /\ o.tag = "promise" THEN EmptyObject ELSE o
\* const {f} = o
Prop(o, f) == IF f \in DOMAIN o THEN o[f] ELSE UndefinedObj

VARIABLES
    google_tag_manager, \* window.google_tag_manager is set
    hasDataLayer,       \* window.dataLayer is set
    dataLayer,          \* the records pushed to window.dataLayer (the sink)
    rootEmail,          \* customerEmail of the root loader's data
    page,               \* the mounted route: "none", "product", "collection"
    mounts,             \* mounts so far; the mounted page instance is number mounts
    renders,            \* re-renders so far
    userEmail,          \* userEmail of the mounted page's last render
    userType,           \* userType of the mounted page's last render
    selectedVariant,    \* selectedVariant of the product page's last render
    collection,         \* collection of the collection page's last render
    triggeredThresholds,\* per instance: the ref of useScrollTracking.js:11
    gtmReadyRef,        \* per instance: the ref of useScrollTracking.js:12
    scrollRuns,         \* the runs of the scroll tracker's effect, oldest first
    productRuns,        \* the runs of the product page's effect
    collectionRuns,     \* the runs of the collection page's effect
    scrollListeners,    \* window's "scroll" listeners: indices into scrollRuns
    scrollTop,          \* window.pageYOffset
    scrollHeight,       \* documentElement.scrollHeight - clientHeight
    aside,              \* the aside panel: "closed" or "cart"
    clicks,             \* invocations of handleAddToCartClick so far
    wait,               \* a stand-alone invocation of waitForGTM
    waitMax,            \* its maxAttempts
    waitCalls,          \* stand-alone invocations so far
    call                \* a stand-alone call of a function: inputs and result

envVars == <<google_tag_manager, hasDataLayer>>
pollerVars == <<wait, waitMax, waitCalls>>
renderVars == <<page, mounts, renders, userEmail, userType, selectedVariant,
                collection>>
scrollVars == <<triggeredThresholds, gtmReadyRef, scrollRuns, scrollListeners>>
posVars == <<scrollTop, scrollHeight>>
cartVars == <<aside, clicks>>
vars == <<google_tag_manager, hasDataLayer, dataLayer, rootEmail, page, mounts,
          renders, userEmail, userType, selectedVariant, collection,
          triggeredThresholds, gtmReadyRef, scrollRuns, productRuns,
          collectionRuns, scrollListeners, scrollTop, scrollHeight, aside,
          clicks, wait, waitMax, waitCalls, call>>

(***************************************************************************)
(* The readiness poller, waitForGTM.  A poller is a record                 *)
(*   state        the promise: "Pending", "Ready" (resolved true),         *)
(*                "Unavailable" (resolved false)                           *)
(*   attempts     the counter of line 23                                   *)
(*   interval     the setInterval timer is scheduled                       *)
(*   resolveCalls how often resolve() was called                           *)
(*   checks       the value the readiness predicate had at each check the  *)
(*                poller made (history, not read by the code)              *)
(***************************************************************************)
\* window.google_tag_manager && window.dataLayer
GTMReady == google_tag_manager /\ hasDataLayer

NoWait == [state |-> "None", attempts |-> 0, interval |-> FALSE,
           resolveCalls |-> 0, checks |-> <<>>]

\* resolve(v) of a promise: only the first call settles it
Resolve(state, v) == IF state = "Pending" THEN v ELSE state

\* new Promise(...): the immediate check (lines 19-22), else setInterval
waitForGTM ==
    IF GTMReady
    THEN [state |-> "Ready", attempts |-> 0, interval |-> FALSE,
          resolveCalls |-> 1, checks |-> <<GTMReady>>]
    ELSE [state |-> "Pending", attempts |-> 0, interval |-> TRUE,
          resolveCalls |-> 0, checks |-> <<GTMReady>>]

\* the interval callback with the attempt cap tested before the predicate
IntervalTick_capFirst(p, maxAttempts) ==
    LET a == p.attempts + 1 IN
    IF a >= maxAttempts
    THEN [p EXCEPT !.attempts = a, !.interval = FALSE,
                   !.state = Resolve(p.state, "Unavailable"),
                   !.resolveCalls = @ + 1,
                   !.checks = Append(@, GTMReady)]
    ELSE IF GTMReady
    THEN [p EXCEPT !.attempts = a, !.interval = FALSE,
                   !.state = Resolve(p.state, "Ready"),
                   !.resolveCalls = @ + 1,
                   !.checks = Append(@, GTMReady)]
    ELSE [p EXCEPT !.attempts = a, !.checks = Append(@, GTMReady)]

\* the interval callback without clearInterval on the Ready branch
IntervalTick_noClear(p, maxAttempts) ==
    LET a == p.attempts + 1 IN
    IF GTMReady
    THEN [p EXCEPT !.attempts = a,
                   !.state = Resolve(p.state, "Ready"),
                   !.resolveCalls = @ + 1,
                   !.checks = Append(@, GTMReady)]
    ELSE IF a >= maxAttempts
    THEN [p EXCEPT !.attempts = a, !.interval = FALSE,
                   !.state = Resolve(p.state, "Unavailable"),
                   !.resolveCalls = @ + 1,
                   !.checks = Append(@, GTMReady)]
    ELSE [p EXCEPT !.attempts = a, !.checks = Append(@, GTMReady)]

\* one firing of the interval callback (lines 25-34)
IntervalTick(p, maxAttempts) ==
    LET a == p.attempts + 1 IN
    IF GTMReady
    THEN [p EXCEPT !.attempts = a, !.interval = FALSE,
                   !.state = Resolve(p.state, "Ready"),
                   !.resolveCalls = @ + 1,
                   !.checks = Append(@, GTMReady)]
    ELSE IF a >= maxAttempts
    THEN [p EXCEPT !.attempts = a, !.interval = FALSE,
                   !.state = Resolve(p.state, "Unavailable"),
                   !.resolveCalls = @ + 1,
                   !.checks = Append(@, GTMReady)]
    ELSE [p EXCEPT !.attempts = a, !.checks = Append(@, GTMReady)]

\* the interval callback can run: its timer is scheduled
CanTick(p) == p.interval /\ p.attempts <= MaxAttemptsCap + 1

(***************************************************************************)
(* Program data.                                                           *)
(***************************************************************************)
\* thresholds a caller passes in descending order
Thresholds_descending == <<100, 75, 50, 25>>

\* the thresholds Product passes (products.$handle.jsx:87), the hook's default
Thresholds == <<25, 50, 75, 100>>

\* customerEmail of the root loader: data?.customer?...?.emailAddress ?? null
RootEmails == {Null, "", "b@x.com"}
\* selectedVariant of a render: an id, or null
Variants == {Null, "v1"}
\* the collection of the collection loader's data
Collections == {"c1", "c2"}

\* what context.customerAccount does during a request: isLoggedIn() rejects
\* or resolves, query() throws or returns data whose
\* customer?.emailAddress?.emailAddress is query
AuthOutcomes == [isLoggedIn : {"rejects", "false", "true"},
                 query : {"throws", Undefined, Null, "a@x.com"}]

\* the product of loadCriticalData (its id is checked at line 46); the
\* other fields as the Storefront API response carries them
Products == [tag : {"object"}, id : {"p1"}, title : {Undefined, "Shirt"},
             handle : {"shirt"}, vendor : {Undefined, Null, "Acme"}]
\* price of a variant
Prices == {UndefinedObj, NullObj}
          \cup [tag : {"object"}, amount : {Undefined, "10.0"},
                currencyCode : {"USD"}]
\* selectedVariant as an object
VariantObjects == {NullObj}
                  \cup [tag : {"object"}, id : {"v1"},
                        title : {Undefined, "Small"}, price : Prices]
\* collection.products
Connections == {UndefinedObj,
                [tag |-> "object", nodes |-> <<>>],
                [tag |-> "object",
                 nodes |-> <<[id |-> "p1", handle |-> "shirt",
                              title |-> "Shirt"]>>]}
\* the collection of loadCriticalData as an object
CollectionObjects == [tag : {"object"}, id : Collections,
                      handle : {Undefined, "sale"}, title : {"Sale"},
                      description : {Undefined, Null, "", "All of it"},
                      products : Connections]

\* the objects the pages of the model are rendered with
product == [tag |-> "object", id |-> "p1", title |-> "Shirt",
            handle |-> "shirt", vendor |-> "Acme"]
VariantObject(id) ==
    IF id = Null THEN NullObj
    ELSE [tag |-> "object", id |-> id, title |-> "Small",
          price |-> [tag |-> "object", amount |-> "10.0",
                     currencyCode |-> "USD"]]
CollectionObject(id) ==
    [tag |-> "object", id |-> id, handle |-> "sale", title |-> "Sale",
     description |-> "All of it",
     products |-> [tag |-> "object",
                   nodes |-> <<[id |-> "p1", handle |-> "shirt",
                                title |-> "Shirt"]>>]]

Instances == 1..MaxRuns

\* the ghost tag of a pushed record: consumer, page instance, effect run
By(c, inst, run) == [c |-> c, inst |-> inst, run |-> run]

(***************************************************************************)
(* The scroll tracker, useScrollTracking.                                  *)
(***************************************************************************)
\* Math.round((scrollTop / scrollHeight) * 100), scrollHeight # 0
ScrollPercentage(top, height) == (200 * top + height) \div (2 * height)

\* the loop without the comparison scrollPercentage >= threshold of line 46
RECURSIVE ForEachThreshold_noCompare(_, _, _, _, _)
ForEachThreshold_noCompare(k, pct, run, i, st) ==
    IF k > Len(Thresholds) THEN st
    ELSE LET threshold == Thresholds[k] IN
         IF threshold \notin st.trig
         THEN ForEachThreshold_noCompare(k + 1, pct, run, i,
                [trig |-> st.trig \cup {threshold},
                 sink |-> Append(st.sink,
                    [event |-> "scroll_depth",
                     scroll_percentage |-> threshold,
                     page_type |-> Or(run.pageType, "product"),
                     user_email |-> Or(run.email, Null),
                     by |-> By("scroll", run.inst, i)])])
         ELSE ForEachThreshold_noCompare(k + 1, pct, run, i, st)

\* the loop without triggeredThresholds.current.add(threshold) of line 47
RECURSIVE ForEachThreshold_noAdd(_, _, _, _, _)
ForEachThreshold_noAdd(k, pct, run, i, st) ==
    IF k > Len(Thresholds) THEN st
    ELSE LET threshold == Thresholds[k] IN
         IF pct >= threshold /\ threshold \notin st.trig
         THEN ForEachThreshold_noAdd(k + 1, pct, run, i,
                [trig |-> st.trig,
                 sink |-> Append(st.sink,
                    [event |-> "scroll_depth",
                     scroll_percentage |-> threshold,
                     page_type |-> Or(run.pageType, "product"),
                     user_email |-> Or(run.email, Null),
                     by |-> By("scroll", run.inst, i)])])
         ELSE ForEachThreshold_noAdd(k + 1, pct, run, i, st)

\* lines 45-56 for the thresholds from index k on; st = [trig, sink]
RECURSIVE ForEachThreshold(_, _, _, _, _)
ForEachThreshold(k, pct, run, i, st) ==
    IF k > Len(Thresholds) THEN st
    ELSE LET threshold == Thresholds[k] IN
         IF pct >= threshold /\ threshold \notin st.trig
         THEN ForEachThreshold(k + 1, pct, run, i,
                [trig |-> st.trig \cup {threshold},
                 sink |-> Append(st.sink,
                    [event |-> "scroll_depth",
                     scroll_percentage |-> threshold,
                     page_type |-> Or(run.pageType, "product"),
                     user_email |-> Or(run.email, Null),
                     by |-> By("scroll", run.inst, i)])])
         ELSE ForEachThreshold(k + 1, pct, run, i, st)

\* handleScroll with the triggered set kept per effect run instead of in the ref
handleScroll_freshSet(i, run, ready, top, st) ==
    IF ~ready THEN st
    ELSE IF scrollHeight = 0 THEN st
    ELSE LET r == ForEachThreshold(1, ScrollPercentage(top, scrollHeight),
                                   run, i, [trig |-> {}, sink |-> st.sink])
         IN [trig |-> st.trig \cup r.trig, sink |-> r.sink]

\* handleScroll of effect run i (lines 38-57); ready is gtmReadyRef.current,
\* top is window.pageYOffset when it runs,
\* st = [trig |-> triggeredThresholds.current, sink |-> window.dataLayer]
handleScroll(i, run, ready, top, st) ==
    IF ~ready THEN st
    ELSE IF scrollHeight = 0 THEN st
    ELSE ForEachThreshold(1, ScrollPercentage(top, scrollHeight), run, i, st)

\* window.addEventListener("scroll", handleScroll of run i)
AddEventListener(ls, i) ==
    IF \E k \in DOMAIN ls : ls[k] = i THEN ls ELSE Append(ls, i)

\* window.removeEventListener("scroll", handleScroll of run i)
RemoveEventListener(ls, i) == SelectSeq(ls, LAMBDA x : x # i)

\* the effect run the last render of the mounted product page made
LastScrollRun == Len(scrollRuns)

\* the effect's cleanup (lines 67-69) for run i
ScrollCleanup(runs, i) == [runs EXCEPT ![i].cleaned = TRUE]

\* the effect body (lines 14-65) up to the promise: a new run.  cleaned,
\* fired (the 500 ms timer has run) and forced (the thresholds it pushed)
\* are history, not read by the code
NewScrollRun(inst, email) ==
    [p |-> waitForGTM, inst |-> inst, cleaned |-> FALSE, timeout |-> FALSE,
     fired |-> FALSE, forced |-> {}, pageType |-> "product", email |-> email]

\* the .then callback without the setTimeout of line 63
ScrollThenRuns_noTimeout(runs, i, isReady) == runs

\* the .then callback (lines 59-65) of run i, on the runs
ScrollThenRuns(runs, i, isReady) ==
    IF isReady THEN [runs EXCEPT ![i].timeout = TRUE] ELSE runs

\* the .then callback, on window's listeners
ScrollThenListeners(ls, i, isReady) ==
    IF isReady THEN AddEventListener(ls, i) ELSE ls

(***************************************************************************)
(* The page view emitters.                                                 *)
(***************************************************************************)
\* the record of lines 132-136 (product), 118-122 (collection)
UserDataAvailable(email, utype, by) ==
    [event |-> "user_data_available",
     user_type |-> utype,
     user_email |-> Or(email, Null),
     by |-> by]

\* the record of products.$handle.jsx:139-158
ProductPageView(prod, email, utype, variant, by) ==
    [event |-> "product_page_view",
     page_type |-> "product",
     product_id |-> prod.id,
     product_title |-> prod.title,
     product_handle |-> prod.handle,
     product_vendor |-> prod.vendor,
     user_email |-> Or(email, Null),
     user_type |-> utype,
     variant_id |-> Coalesce(Opt(variant, "id"), Null),
     variant_title |-> Coalesce(Opt(variant, "title"), ""),
     price |-> Coalesce(Opt(OptObj(variant, "price"), "amount"), Null),
     currency |-> Coalesce(Opt(OptObj(variant, "price"), "currencyCode"), Null),
     by |-> by]

\* collection?.products?.nodes ?? [] (collections.$handle.jsx:85)
ProductNodes(coll) ==
    LET products == OptObj(coll, "products")
    IN IF products.tag = "object" THEN products.nodes ELSE <<>>

\* the record of collections.$handle.jsx:125-143 with the arrays of 86-88
CollectionPageView(coll, email, utype, by) ==
    LET products == ProductNodes(coll) IN
    [event |-> "collection_page_view",
     page_type |-> "collection",
     collection_id |-> coll.id,
     collection_handle |-> coll.handle,
     collection_title |-> coll.title,
     collection_description |-> Coalesce(coll.description, ""),
     user_email |-> Or(email, Null),
     user_type |-> utype,
     collection_product_ids |-> [k \in DOMAIN products |-> products[k].id],
     collection_product_handles |-> [k \in DOMAIN products |-> products[k].handle],
     collection_product_titles |-> [k \in DOMAIN products |-> products[k].title],
     by |-> by]

\* the .then callback without the identity record
ProductThen_viewOnly(isReady, run, i, sink) ==
    IF ~isReady THEN sink
    ELSE Append(sink,
           ProductPageView(run.product, run.email, run.utype, run.variant,
                           By("product", run.inst, i)))

\* the .then callback without the isReady guard of line 129
ProductThen_ungated(isReady, run, i, sink) ==
    sink \o
      << UserDataAvailable(run.email, run.utype, By("product", run.inst, i)),
         ProductPageView(run.product, run.email, run.utype, run.variant,
                         By("product", run.inst, i)) >>

\* products.$handle.jsx:128-159, the .then callback of a run
ProductThen(isReady, run, i, sink) ==
    IF ~isReady THEN sink
    ELSE sink \o
      << UserDataAvailable(run.email, run.utype, By("product", run.inst, i)),
         ProductPageView(run.product, run.email, run.utype, run.variant,
                         By("product", run.inst, i)) >>

\* the .then callback pushing userEmail as it is, without "|| null"
CollectionThen_rawEmail(isReady, run, i, sink) ==
    IF ~isReady THEN sink
    ELSE sink \o
      << [UserDataAvailable(run.email, run.utype,
                            By("collection", run.inst, i))
            EXCEPT !.user_email = run.email],
         [CollectionPageView(run.collection, run.email, run.utype,
                             By("collection", run.inst, i))
            EXCEPT !.user_email = run.email] >>

\* collections.$handle.jsx:114-144, the .then callback of a run
CollectionThen(isReady, run, i, sink) ==
    IF ~isReady THEN sink
    ELSE sink \o
      << UserDataAvailable(run.email, run.utype,
                           By("collection", run.inst, i)),
         CollectionPageView(run.collection, run.email, run.utype,
                            By("collection", run.inst, i)) >>

\* products.$handle.jsx:84 and collections.$handle.jsx:82
UserType(email) == IF Truthy(email) THEN "logged_in" ELSE "visitor"

\* products.$handle.jsx:83
ProductUserEmail(customerEmail, root) == Or(Or(customerEmail, root), Null)

\* collections.$handle.jsx:81
CollectionUserEmail(root) == Coalesce(root, Null)

(***************************************************************************)
(* The loader of the product route.  A promise is a record with tag        *)
(* "promise" and the value it resolves to.                                 *)
(***************************************************************************)
\* the customer of loadDeferredData (products.$handle.jsx:56-73)
Customer(auth) ==
    IF auth.isLoggedIn # "true" THEN NullObj
    ELSE IF auth.query = "throws" THEN NullObj
    ELSE [tag |-> "object", isLoggedIn |-> TRUE,
          email |-> Coalesce(auth.query, Null)]

\* loadDeferredData is an async function: its result is a promise
loadDeferredData(auth) ==
    [tag |-> "promise", value |-> [customer |-> Customer(auth)]]

\* loadCriticalData, awaited by loader
loadCriticalData(prod) == [product |-> prod]

\* loader (lines 29-33): {...deferredData, ...criticalData}, where
\* deferredData is the promise itself
loader(auth, prod) ==
    LET deferredData == loadDeferredData(auth)
        criticalData == loadCriticalData(prod)
    IN Spread(criticalData) @@ Spread(deferredData)

\* customer?.email of Product (lines 79, 83)
PageLocalEmail(data) == Opt(Prop(data, "customer"), "email")

\* what "no call yet" looks like
NoCall == [fn |-> "none"]

\* the state before the first mount, of a page whose scrollable height is
\* one of heights
InitPage(heights) ==
    /\ google_tag_manager = FALSE
    /\ hasDataLayer = FALSE
    /\ dataLayer = <<>>
    /\ rootEmail \in RootEmails
    /\ page = "none"
    /\ mounts = 0
    /\ renders = 0
    /\ userEmail = Null
    /\ userType = "visitor"
    /\ selectedVariant = Null
    /\ collection = "c1"
    /\ triggeredThresholds = [n \in Instances |-> {}]
    /\ gtmReadyRef = [n \in Instances |-> FALSE]
    /\ scrollRuns = <<>>
    /\ productRuns = <<>>
    /\ collectionRuns = <<>>
    /\ scrollListeners = <<>>
    /\ scrollHeight \in heights
    /\ scrollTop = 0
    /\ aside = "closed"
    /\ clicks = 0
    /\ wait = NoWait
    /\ waitMax = 1
    /\ waitCalls = 0
    /\ call = NoCall

Init == InitPage({0, PageHeight})

(***************************************************************************)
(* The environment of the page: the tag manager's bootstrap and script.    *)
(***************************************************************************)
\* the inline scripts of Layout (part_000:120-145) or the effect of
\* GoogleTagManager (part_000:328-354): window.dataLayer is created and
\* the gtm.js record is pushed
GTMBootstrap ==
    /\ ~hasDataLayer
    /\ hasDataLayer' = TRUE
    /\ dataLayer' = Append(dataLayer, [event |-> "gtm.js"])
    /\ UNCHANGED <<google_tag_manager, rootEmail, renderVars, scrollVars,
                   productRuns, collectionRuns, posVars, cartVars, pollerVars, call>>

\* gtm.js has loaded and has set window.google_tag_manager
GTMLoaded ==
    /\ hasDataLayer
    /\ ~google_tag_manager
    /\ google_tag_manager' = TRUE
    /\ UNCHANGED <<hasDataLayer, dataLayer, rootEmail, renderVars, scrollVars,
                   productRuns, collectionRuns, posVars, cartVars, pollerVars, call>>

(***************************************************************************)
(* The product page: Product, with its scroll tracker.                     *)
(***************************************************************************)
\* the loader's data, the first render of Product and its two effects
MountProduct ==
    /\ page = "none"
    /\ mounts + renders < MaxRuns
    /\ \E auth \in AuthOutcomes, v \in Variants :
         LET inst == mounts + 1
             data == loader(auth, product)
             email == ProductUserEmail(PageLocalEmail(data), rootEmail)
             srun == NewScrollRun(inst, email)
             i == Len(scrollRuns) + 1
             sReady == srun.p.state = "Ready"
             prun == [p |-> waitForGTM, inst |-> inst, email |-> email,
                      utype |-> UserType(email), product |-> product,
                      variant |-> VariantObject(v)]
             j == Len(productRuns) + 1
         IN /\ page' = "product"
            /\ mounts' = inst
            /\ userEmail' = email
            /\ userType' = UserType(email)
            /\ selectedVariant' = v
            /\ scrollRuns' = ScrollThenRuns(Append(scrollRuns, srun), i, sReady)
            /\ scrollListeners' = ScrollThenListeners(scrollListeners, i, sReady)
            /\ gtmReadyRef' = IF srun.p.state = "Pending" THEN gtmReadyRef
                              ELSE [gtmReadyRef EXCEPT ![inst] = sReady]
            /\ productRuns' = Append(productRuns, prun)
            /\ dataLayer' = IF prun.p.state = "Pending" THEN dataLayer
                            ELSE ProductThen(prun.p.state = "Ready", prun, j,
                                             dataLayer)
    /\ UNCHANGED <<envVars, rootEmail, renders, collection, triggeredThresholds,
                   collectionRuns, posVars, cartVars, pollerVars, call>>

\* a re-render of Product with selectedVariant v: the scroll tracker's effect
\* re-runs (its thresholds argument is a new array in every render), the
\* page's effect re-runs when selectedVariant changed
RenderProduct ==
    /\ page = "product"
    /\ mounts + renders < MaxRuns
    /\ \E v \in Variants :
         LET inst == mounts
             srun == NewScrollRun(inst, userEmail)
             i == Len(scrollRuns) + 1
             sReady == srun.p.state = "Ready"
             prun == [p |-> waitForGTM, inst |-> inst, email |-> userEmail,
                      utype |-> userType, product |-> product,
                      variant |-> VariantObject(v)]
             j == Len(productRuns) + 1
             cleaned == ScrollCleanup(scrollRuns, LastScrollRun)
         IN /\ renders' = renders + 1
            /\ selectedVariant' = v
            /\ scrollRuns' = ScrollThenRuns(Append(cleaned, srun), i, sReady)
            /\ scrollListeners' =
                 ScrollThenListeners(
                    RemoveEventListener(scrollListeners, LastScrollRun),
                    i, sReady)
            /\ gtmReadyRef' = IF srun.p.state = "Pending" THEN gtmReadyRef
                              ELSE [gtmReadyRef EXCEPT ![inst] = sReady]
            /\ IF v # selectedVariant
               THEN /\ productRuns' = Append(productRuns, prun)
                    /\ dataLayer' = IF prun.p.state = "Pending" THEN dataLayer
                                    ELSE ProductThen(prun.p.state = "Ready",
                                                     prun, j, dataLayer)
               ELSE UNCHANGED <<productRuns, dataLayer>>
    /\ UNCHANGED <<envVars, rootEmail, page, mounts, userEmail, userType,
                   collection, triggeredThresholds, collectionRuns, posVars,
                   cartVars, pollerVars, call>>

\* Product unmounts: the cleanup of the scroll tracker's last effect run
UnmountProduct ==
    /\ page = "product"
    /\ page' = "none"
    /\ scrollRuns' = ScrollCleanup(scrollRuns, LastScrollRun)
    /\ scrollListeners' = RemoveEventListener(scrollListeners, LastScrollRun)
    /\ UNCHANGED <<envVars, dataLayer, rootEmail, mounts, renders, userEmail,
                   userType, selectedVariant, collection, triggeredThresholds,
                   gtmReadyRef, productRuns, collectionRuns, posVars, cartVars,
                   pollerVars, call>>

\* the interval callback of scroll run i, and the .then callback if it resolves
ScrollTick ==
    \E i \in DOMAIN scrollRuns :
      /\ CanTick(scrollRuns[i].p)
      /\ LET run == scrollRuns[i]
             p == IntervalTick(run.p, ScrollMaxAttempts)
             resolved == run.p.state = "Pending" /\ p.state # "Pending"
             isReady == p.state = "Ready"
             ticked == [scrollRuns EXCEPT ![i].p = p]
         IN /\ scrollRuns' = IF resolved THEN ScrollThenRuns(ticked, i, isReady)
                             ELSE ticked
            /\ scrollListeners' =
                 IF resolved THEN ScrollThenListeners(scrollListeners, i, isReady)
                 ELSE scrollListeners
            /\ gtmReadyRef' = IF resolved
                              THEN [gtmReadyRef EXCEPT ![run.inst] = isReady]
                              ELSE gtmReadyRef
      /\ UNCHANGED <<envVars, dataLayer, rootEmail, renderVars,
                     triggeredThresholds, productRuns, collectionRuns, posVars,
                     cartVars, pollerVars, call>>

\* the 500 ms timer of scroll run i fires: setTimeout(() => handleScroll(), 500)
ScrollTimeout ==
    \E i \in DOMAIN scrollRuns :
      /\ scrollRuns[i].timeout
      /\ LET run == scrollRuns[i]
             st == handleScroll(i, run, gtmReadyRef[run.inst], scrollTop,
                     [trig |-> triggeredThresholds[run.inst], sink |-> dataLayer])
         IN /\ scrollRuns' =
                 [scrollRuns EXCEPT ![i].timeout = FALSE, ![i].fired = TRUE,
                    ![i].forced = st.trig \ triggeredThresholds[run.inst]]
            /\ triggeredThresholds' =
                 [triggeredThresholds EXCEPT ![run.inst] = st.trig]
            /\ dataLayer' = st.sink
      /\ UNCHANGED <<envVars, rootEmail, renderVars, gtmReadyRef,
                     scrollListeners, productRuns, collectionRuns, posVars,
                     cartVars, pollerVars, call>>

\* the listeners of ls from index k on handle one scroll event at position
\* top, in order
RECURSIVE Dispatch(_, _, _, _, _)
Dispatch(ls, k, top, trigs, sink) ==
    IF k > Len(ls) THEN [trigs |-> trigs, sink |-> sink]
    ELSE LET i == ls[k]
             run == scrollRuns[i]
             st == handleScroll(i, run, gtmReadyRef[run.inst], top,
                     [trig |-> trigs[run.inst], sink |-> sink])
         IN Dispatch(ls, k + 1, top, [trigs EXCEPT ![run.inst] = st.trig],
                     st.sink)

\* the user scrolls to position top: a scroll event
ScrollEvent ==
    \E top \in 0..scrollHeight :
      /\ top # scrollTop
      /\ scrollTop' = top
      /\ LET r == Dispatch(scrollListeners, 1, top, triggeredThresholds,
                           dataLayer)
         IN /\ triggeredThresholds' = r.trigs
            /\ dataLayer' = r.sink
      /\ UNCHANGED <<envVars, rootEmail, renderVars, gtmReadyRef, scrollRuns,
                     scrollListeners, productRuns, collectionRuns, scrollHeight,
                     cartVars, pollerVars, call>>

\* the interval callback of product run i, and the .then callback if it resolves
ProductTick ==
    \E i \in DOMAIN productRuns :
      /\ CanTick(productRuns[i].p)
      /\ LET run == productRuns[i]
             p == IntervalTick(run.p, PageMaxAttempts)
             resolved == run.p.state = "Pending" /\ p.state # "Pending"
         IN /\ productRuns' = [productRuns EXCEPT ![i].p = p]
            /\ dataLayer' = IF resolved
                            THEN ProductThen(p.state = "Ready", run, i, dataLayer)
                            ELSE dataLayer
      /\ UNCHANGED <<envVars, rootEmail, renderVars, scrollVars, collectionRuns,
                     posVars, cartVars, pollerVars, call>>

(***************************************************************************)
(* The collection page: Collection.                                        *)
(***************************************************************************)
MountCollection ==
    /\ page = "none"
    /\ mounts + renders < MaxRuns
    /\ \E c \in Collections :
         LET inst == mounts + 1
             email == CollectionUserEmail(rootEmail)
             run == [p |-> waitForGTM, inst |-> inst, email |-> email,
                     utype |-> UserType(email),
                     collection |-> CollectionObject(c)]
             j == Len(collectionRuns) + 1
         IN /\ page' = "collection"
            /\ mounts' = inst
            /\ userEmail' = email
            /\ userType' = UserType(email)
            /\ collection' = c
            /\ collectionRuns' = Append(collectionRuns, run)
            /\ dataLayer' = IF run.p.state = "Pending" THEN dataLayer
                            ELSE CollectionThen(run.p.state = "Ready", run, j,
                                                dataLayer)
    /\ UNCHANGED <<envVars, rootEmail, renders, selectedVariant, scrollVars,
                   productRuns, posVars, cartVars, pollerVars, call>>

\* a re-render of Collection with collection c: the effect re-runs when the
\* collection changed
RenderCollection ==
    /\ page = "collection"
    /\ mounts + renders < MaxRuns
    /\ \E c \in Collections :
         LET run == [p |-> waitForGTM, inst |-> mounts, email |-> userEmail,
                     utype |-> userType,
                     collection |-> CollectionObject(c)]
             j == Len(collectionRuns) + 1
         IN /\ renders' = renders + 1
            /\ collection' = c
            /\ IF c # collection
               THEN /\ collectionRuns' = Append(collectionRuns, run)
                    /\ dataLayer' = IF run.p.state = "Pending" THEN dataLayer
                                    ELSE CollectionThen(run.p.state = "Ready",
                                                        run, j, dataLayer)
               ELSE UNCHANGED <<collectionRuns, dataLayer>>
    /\ UNCHANGED <<envVars, rootEmail, page, mounts, userEmail, userType,
                   selectedVariant, scrollVars, productRuns, posVars, cartVars,
                   pollerVars, call>>

\* Collection unmounts: its effect has no cleanup
UnmountCollection ==
    /\ page = "collection"
    /\ page' = "none"
    /\ UNCHANGED <<envVars, dataLayer, rootEmail, mounts, renders, userEmail,
                   userType, selectedVariant, collection, scrollVars,
                   productRuns, collectionRuns, posVars, cartVars, pollerVars, call>>

CollectionTick ==
    \E i \in DOMAIN collectionRuns :
      /\ CanTick(collectionRuns[i].p)
      /\ LET run == collectionRuns[i]
             p == IntervalTick(run.p, PageMaxAttempts)
             resolved == run.p.state = "Pending" /\ p.state # "Pending"
         IN /\ collectionRuns' = [collectionRuns EXCEPT ![i].p = p]
            /\ dataLayer' = IF resolved
                            THEN CollectionThen(p.state = "Ready", run, i,
                                                dataLayer)
                            ELSE dataLayer
      /\ UNCHANGED <<envVars, rootEmail, renderVars, scrollVars, productRuns,
                     posVars, cartVars, pollerVars, call>>

(***************************************************************************)
(* The add-to-cart handler of ProductForm.                                 *)
(***************************************************************************)
\* open('cart') of useAside
open(mode) == mode

\* part_001:24-25
EffectiveUserType(utype, email) ==
    IF Truthy(utype) THEN utype ELSE UserType(email)

\* the handler without the selectedVariant guard of line 32
handleAddToCartClick_noVariantGuard ==
    /\ aside' = open("cart")
    /\ IF hasDataLayer
       THEN dataLayer' = Append(dataLayer,
              [event |-> "add_to_cart",
               user_email |-> Or(userEmail, Null),
               user_type |-> EffectiveUserType(userType, userEmail),
               page_type |-> "product",
               variant_id |-> Or(selectedVariant, Null),
               quantity |-> 1,
               by |-> By("cart", mounts, clicks + 1)])
       ELSE dataLayer' = dataLayer

\* the handler opening the panel only after a successful push
handleAddToCartClick_openAfterPush ==
    IF hasDataLayer /\ Truthy(selectedVariant)
    THEN /\ dataLayer' = Append(dataLayer,
              [event |-> "add_to_cart",
               user_email |-> Or(userEmail, Null),
               user_type |-> EffectiveUserType(userType, userEmail),
               page_type |-> "product",
               variant_id |-> Or(selectedVariant, Null),
               quantity |-> 1,
               by |-> By("cart", mounts, clicks + 1)])
         /\ aside' = open("cart")
    ELSE /\ dataLayer' = dataLayer
         /\ aside' = aside

\* part_001:27-51, one click on the add-to-cart button
handleAddToCartClick ==
    /\ aside' = open("cart")
    /\ IF hasDataLayer /\ Truthy(selectedVariant)
       THEN dataLayer' = Append(dataLayer,
              [event |-> "add_to_cart",
               user_email |-> Or(userEmail, Null),
               user_type |-> EffectiveUserType(userType, userEmail),
               page_type |-> "product",
               variant_id |-> Or(selectedVariant, Null),
               quantity |-> 1,
               by |-> By("cart", mounts, clicks + 1)])
       ELSE dataLayer' = dataLayer

AddToCartClick ==
    /\ page = "product"
    /\ clicks < MaxClicks
    /\ clicks' = clicks + 1
    /\ handleAddToCartClick
    /\ UNCHANGED <<envVars, rootEmail, renderVars, scrollVars, productRuns,
                   collectionRuns, posVars, pollerVars, call>>

\* the aside panel is closed again
AsideClose ==
    /\ aside = "cart"
    /\ aside' = "closed"
    /\ UNCHANGED <<envVars, dataLayer, rootEmail, renderVars, scrollVars,
                   productRuns, collectionRuns, posVars, clicks, pollerVars, call>>

Next ==
    \/ GTMBootstrap
    \/ GTMLoaded
    \/ MountProduct
    \/ RenderProduct
    \/ UnmountProduct
    \/ ScrollTick
    \/ ScrollTimeout
    \/ ScrollEvent
    \/ ProductTick
    \/ MountCollection
    \/ RenderCollection
    \/ UnmountCollection
    \/ CollectionTick
    \/ AddToCartClick
    \/ AsideClose

Spec == Init /\ [][Next]_vars

(***************************************************************************)
(* The components on their own.  The trackers share nothing but the sink,  *)
(* to which each only appends, and the two globals, which none of them     *)
(* writes.                                                                 *)
(***************************************************************************)
\* the scroll tracker of the product page
NextScroll ==
    \/ GTMBootstrap
    \/ GTMLoaded
    \/ MountProduct
    \/ RenderProduct
    \/ UnmountProduct
    \/ ScrollTick
    \/ ScrollTimeout
    \/ ScrollEvent

SpecScroll == Init /\ [][NextScroll]_vars

\* the scroll tracker of one mount of a long page
NextLong ==
    \/ GTMBootstrap
    \/ GTMLoaded
    \/ MountProduct
    \/ ScrollTick
    \/ ScrollTimeout
    \/ ScrollEvent

InitLong == InitPage({LongPageHeight}) /\ rootEmail = Null

SpecLong == InitLong /\ [][NextLong]_vars

\* the scroll tracker of an anonymous visitor's scrollable page, with its
\* timers: a timer that is set fires
InitFair == InitPage({PageHeight}) /\ rootEmail = Null

SpecScrollFair == InitFair /\ [][NextScroll]_vars /\ WF_vars(ScrollTimeout)

\* the page view emitters of the product and the collection page
NextPages ==
    \/ GTMBootstrap
    \/ GTMLoaded
    \/ MountProduct
    \/ RenderProduct
    \/ UnmountProduct
    \/ ProductTick
    \/ MountCollection
    \/ RenderCollection
    \/ UnmountCollection
    \/ CollectionTick

SpecPages == Init /\ [][NextPages]_vars

\* the three readiness-gated trackers together
NextGated ==
    \/ GTMBootstrap
    \/ GTMLoaded
    \/ MountProduct
    \/ RenderProduct
    \/ UnmountProduct
    \/ ScrollTick
    \/ ScrollTimeout
    \/ ScrollEvent
    \/ ProductTick
    \/ MountCollection
    \/ RenderCollection
    \/ UnmountCollection
    \/ CollectionTick

\* a scrollable page of an anonymous visitor
InitGated == Init /\ rootEmail = Null /\ scrollHeight = PageHeight

SpecGated == InitGated /\ [][NextGated]_vars

\* the add-to-cart handler on the product page
NextCart ==
    \/ GTMBootstrap
    \/ GTMLoaded
    \/ MountProduct
    \/ RenderProduct
    \/ UnmountProduct
    \/ ProductTick
    \/ AddToCartClick
    \/ AsideClose

SpecCart == Init /\ [][NextCart]_vars

\* every emitter that pushes user_type and user_email
NextEmit ==
    \/ GTMBootstrap
    \/ GTMLoaded
    \/ MountProduct
    \/ RenderProduct
    \/ UnmountProduct
    \/ ProductTick
    \/ MountCollection
    \/ RenderCollection
    \/ UnmountCollection
    \/ CollectionTick
    \/ AddToCartClick
    \/ AsideClose

SpecEmit == Init /\ [][NextEmit]_vars

(***************************************************************************)
(* The stand-alone poller under an arbitrary history of the two globals.   *)
(***************************************************************************)
mainVars == <<dataLayer, rootEmail, renderVars, scrollVars, productRuns,
              collectionRuns, posVars, cartVars>>

SetGlobals ==
    /\ \E g \in BOOLEAN, d \in BOOLEAN :
          /\ <<g, d>> # <<google_tag_manager, hasDataLayer>>
          /\ google_tag_manager' = g
          /\ hasDataLayer' = d
    /\ UNCHANGED <<mainVars, pollerVars, call>>

WaitStart ==
    /\ ~wait.interval
    /\ waitCalls < MaxWaits
    /\ waitCalls' = waitCalls + 1
    /\ wait' = waitForGTM
    /\ waitMax' \in 1..MaxAttemptsCap
    /\ UNCHANGED <<envVars, mainVars, call>>

WaitTick ==
    /\ CanTick(wait)
    /\ wait' = IntervalTick(wait, waitMax)
    /\ UNCHANGED <<envVars, mainVars, waitMax, waitCalls, call>>

NextPoller == SetGlobals \/ WaitStart \/ WaitTick

SpecPoller == Init /\ [][NextPoller]_vars

(***************************************************************************)
(* The functions of the pages on their own, called with every input of the *)
(* sets above.                                                             *)
(***************************************************************************)
\* the values an email of a loader's data can have
EmailInputs == {Undefined, Null, "", "a@x.com", "b@x.com"}

\* line 83 of Product with the two emails it reads
UserEmailCall ==
    /\ \E ce \in EmailInputs, re \in EmailInputs :
         call' = [fn |-> "userEmail", customerEmail |-> ce, root |-> re,
                  out |-> ProductUserEmail(ce, re)]
    /\ UNCHANGED <<envVars, mainVars, pollerVars>>

\* the product route's loader and what Product reads from its data
LoaderCall ==
    /\ \E auth \in AuthOutcomes, prod \in Products :
         call' = [fn |-> "loader", auth |-> auth, out |-> loader(auth, prod)]
    /\ UNCHANGED <<envVars, mainVars, pollerVars>>

\* the .then callback of Product with an empty sink
ProductThenCall ==
    /\ \E prod \in Products, v \in VariantObjects, email \in {Null, "b@x.com"} :
         LET run == [inst |-> 1, email |-> email, utype |-> UserType(email),
                     product |-> prod, variant |-> v]
         IN call' = [fn |-> "ProductThen", product |-> prod, variant |-> v,
                     out |-> ProductThen(TRUE, run, 1, <<>>)]
    /\ UNCHANGED <<envVars, mainVars, pollerVars>>

\* the .then callback of Collection with an empty sink
CollectionThenCall ==
    /\ \E coll \in CollectionObjects, re \in RootEmails :
         LET email == CollectionUserEmail(re)
             run == [inst |-> 1, email |-> email, utype |-> UserType(email),
                     collection |-> coll]
         IN call' = [fn |-> "CollectionThen", collection |-> coll,
                     out |-> CollectionThen(TRUE, run, 1, <<>>)]
    /\ UNCHANGED <<envVars, mainVars, pollerVars>>

NextData == UserEmailCall \/ LoaderCall \/ ProductThenCall \/ CollectionThenCall

SpecData == Init /\ [][NextData]_vars

(***************************************************************************)
(* Reading the sink and the runs.                                          *)
(***************************************************************************)
GatedEvents == {"scroll_depth", "user_data_available", "product_page_view",
                "collection_page_view"}

\* the effect runs of consumer c
RunsOf(c) == CASE c = "scroll" -> scrollRuns
               [] c = "product" -> productRuns
               [] c = "collection" -> collectionRuns

\* the page view event of a page emitter
ViewEvent(c) == IF c = "collection" THEN "collection_page_view"
                ELSE "product_page_view"

\* the indices of the sink's gated records
GatedIdx(sink) == {k \in DOMAIN sink : sink[k].event \in GatedEvents}

\* the indices of the gated records consumer c's instance inst pushed
ByInst(sink, c, inst) ==
    {k \in GatedIdx(sink) : sink[k].by.c = c /\ sink[k].by.inst = inst}

\* the indices of the gated records run i of consumer c pushed
ByRun(sink, c, i) ==
    {k \in GatedIdx(sink) : sink[k].by.c = c /\ sink[k].by.run = i}

\* instance inst exists and is the mounted page
Mounted(inst) == page # "none" /\ mounts = inst
\* instance inst was mounted and is not mounted any more
Unmounted(inst) == inst <= mounts /\ ~Mounted(inst)

(***************************************************************************)
(* C1.  During one lifetime of a scroll tracker instance the sink receives *)
(* at most one scroll_depth record with scroll_percentage = t from that    *)
(* instance, for each threshold t, whatever scroll signals, timer firings  *)
(* and effect re-runs happen.                                              *)
(***************************************************************************)
C1_AtMostOncePerThreshold ==
    \A inst \in Instances : \A n \in DOMAIN Thresholds :
      Cardinality({k \in ByInst(dataLayer, "scroll", inst) :
                     dataLayer[k].scroll_percentage = Thresholds[n]}) <= 1

\* two effect runs of one instance have each pushed: the later evaluation saw
\* the thresholds of the earlier one satisfied again and did not repeat them
C1_Witness ==
    \E inst \in Instances : \E i, j \in DOMAIN scrollRuns :
      /\ i # j
      /\ \E k \in ByRun(dataLayer, "scroll", i) :
           dataLayer[k].by.inst = inst /\ dataLayer[k].scroll_percentage = 50
      /\ \E k \in ByRun(dataLayer, "scroll", j) :
           dataLayer[k].by.inst = inst /\ dataLayer[k].scroll_percentage = 100

(***************************************************************************)
(* C2.  As claimed: a mount of the product or the collection page whose    *)
(* readiness resolves Ready gives the sink exactly one user_data_available *)
(* record followed by exactly one page view record, once per mount,        *)
(* whatever re-renders happen during the mount.                            *)
(***************************************************************************)
C2_OncePerMount ==
    \A c \in {"product", "collection"} : \A inst \in Instances :
      (\E i \in DOMAIN RunsOf(c) :
          RunsOf(c)[i].inst = inst /\ RunsOf(c)[i].p.state = "Ready")
      => \E k \in DOMAIN dataLayer :
           /\ k + 1 \in DOMAIN dataLayer
           /\ ByInst(dataLayer, c, inst) = {k, k + 1}
           /\ dataLayer[k].event = "user_data_available"
           /\ dataLayer[k + 1].event = ViewEvent(c)

(***************************************************************************)
(* C2, amended.  Every run of the page's effect (the mount, and each       *)
(* re-render that changes one of the effect's dependencies) whose          *)
(* readiness wait resolves Ready gives the sink exactly one                *)
(* user_data_available record immediately followed by exactly one page     *)
(* view record; a run whose wait has not resolved Ready gives none, and a  *)
(* re-render that changes no dependency starts no run.                     *)
(***************************************************************************)
C2_OncePerEffectRun ==
    \A c \in {"product", "collection"} :
      /\ \A k \in GatedIdx(dataLayer) :
           dataLayer[k].by.c = c => dataLayer[k].by.run \in DOMAIN RunsOf(c)
      /\ \A i \in DOMAIN RunsOf(c) :
           IF RunsOf(c)[i].p.state = "Ready"
           THEN \E k \in DOMAIN dataLayer :
                  /\ k + 1 \in DOMAIN dataLayer
                  /\ ByRun(dataLayer, c, i) = {k, k + 1}
                  /\ dataLayer[k].event = "user_data_available"
                  /\ dataLayer[k + 1].event = ViewEvent(c)
                  /\ dataLayer[k].by.inst = RunsOf(c)[i].inst
                  /\ dataLayer[k + 1].by.inst = RunsOf(c)[i].inst
           ELSE ByRun(dataLayer, c, i) = {}

\* one mount of the product page with two effect runs, both resolved Ready
C2_Witness ==
    \E i, j \in DOMAIN productRuns :
      /\ i < j
      /\ productRuns[i].inst = productRuns[j].inst
      /\ productRuns[i].p.state = "Ready"
      /\ productRuns[j].p.state = "Ready"
      /\ productRuns[i].variant # productRuns[j].variant
      /\ Cardinality(ByInst(dataLayer, "product", productRuns[i].inst)) = 4

(***************************************************************************)
(* C3.  As claimed: after a scroll tracker instance is unmounted no        *)
(* scroll_depth record of that instance is pushed to the sink.             *)
(***************************************************************************)
C3_NoScrollDepthAfterUnmount ==
    [][\A inst \in Instances :
         Unmounted(inst) =>
           ByInst(dataLayer', "scroll", inst) = ByInst(dataLayer, "scroll", inst)]_vars

(***************************************************************************)
(* C4.  As claimed: a page view emitter unmounted while its readiness wait *)
(* is Pending pushes no user_data_available and no page view record        *)
(* afterwards.                                                             *)
(***************************************************************************)
C4_NoPageViewAfterUnmount ==
    [][\A c \in {"product", "collection"} : \A i \in DOMAIN RunsOf(c) :
         (Unmounted(RunsOf(c)[i].inst) /\ RunsOf(c)[i].p.state = "Pending")
           => ByRun(dataLayer', c, i) = {}]_vars

(***************************************************************************)
(* C5.  waitForGTM resolves Ready at the earliest check at which the       *)
(* readiness predicate is true, the immediate check (then no timer is      *)
(* scheduled) or tick k with 1 <= k <= maxAttempts, and resolves           *)
(* Unavailable at tick maxAttempts exactly when the predicate was false at *)
(* the immediate check and at every tick 1..maxAttempts.                   *)
(***************************************************************************)
C5_ResolvesAtEarliestCheck ==
    wait.state # "None" =>
      LET n == Len(wait.checks) IN
      /\ n = wait.attempts + 1
      /\ wait.attempts <= waitMax
      /\ \A k \in 1..(n - 1) : ~wait.checks[k]
      /\ wait.state = "Ready" <=> wait.checks[n]
      /\ wait.state = "Unavailable" <=> (~wait.checks[n] /\ wait.attempts = waitMax)
      /\ wait.state = "Pending" <=> (~wait.checks[n] /\ wait.attempts < waitMax)
      /\ (wait.attempts = 0 /\ wait.checks[1]) => ~wait.interval

\* the spec's example: maxAttempts = 3, never ready, Unavailable at tick 3
C5_Witness ==
    /\ waitMax = 3
    /\ wait.state = "Unavailable"
    /\ wait.attempts = 3
    /\ wait.checks = <<FALSE, FALSE, FALSE, FALSE>>

(***************************************************************************)
(* C6.  Every invocation of waitForGTM resolves exactly once and cancels   *)
(* its repeating check at that resolution: once resolved, no timer of it   *)
(* is scheduled and no tick of it runs; it is resolved after at most       *)
(* maxAttempts ticks.                                                      *)
(***************************************************************************)
C6_ResolvesOnceAndCancels ==
    [][/\ wait'.resolveCalls <= 1
       /\ wait'.attempts <= waitMax'
       /\ wait'.state \in {"Ready", "Unavailable"} =>
            (wait'.resolveCalls = 1 /\ ~wait'.interval)
       /\ wait'.state = "Pending" =>
            (wait'.resolveCalls = 0 /\ wait'.interval /\ wait'.attempts < waitMax')
       /\ (wait.state \in {"Ready", "Unavailable"} /\ waitCalls' = waitCalls)
            => wait' = wait]_vars

\* a second invocation, resolved Ready by a tick after a tick that found
\* the globals missing
C6_Witness ==
    /\ waitCalls = 2
    /\ wait.state = "Ready"
    /\ wait.attempts = 2
    /\ ~wait.interval
    /\ wait.resolveCalls = 1

(***************************************************************************)
(* C7.  As claimed: within one mount, once a consumer's readiness has      *)
(* become Unavailable, polling is not restarted, the readiness never       *)
(* becomes Ready and the consumer pushes no gated record.                  *)
(***************************************************************************)
C7_UnavailableIsPermanent ==
    [][\A c \in {"scroll", "product", "collection"} : \A inst \in Instances :
         (/\ Mounted(inst)
          /\ Mounted(inst)'
          /\ \E i \in DOMAIN RunsOf(c) :
               RunsOf(c)[i].inst = inst /\ RunsOf(c)[i].p.state = "Unavailable")
         => /\ Len(RunsOf(c)') = Len(RunsOf(c))
            /\ \A i \in DOMAIN RunsOf(c)' :
                 RunsOf(c)'[i].inst = inst => RunsOf(c)'[i].p.state # "Ready"
            /\ ByInst(dataLayer', c, inst) = ByInst(dataLayer, c, inst)]_vars

C9_AddToCartPushesOnce ==
    [][clicks' = clicks + 1 =>
         IF hasDataLayer /\ selectedVariant \in Variants \ {Null}
         THEN /\ Len(dataLayer') = Len(dataLayer) + 1
              /\ SubSeq(dataLayer', 1, Len(dataLayer)) = dataLayer
              /\ dataLayer'[Len(dataLayer')].event = "add_to_cart"
              /\ dataLayer'[Len(dataLayer')].variant_id = selectedVariant
         ELSE dataLayer' = dataLayer]_vars

\* an add_to_cart record of a page instance none of whose waits is Ready
C9_Witness ==
    \E k \in DOMAIN dataLayer :
      /\ dataLayer[k].event = "add_to_cart"
      /\ \E i \in DOMAIN productRuns :
           /\ productRuns[i].inst = dataLayer[k].by.inst
           /\ productRuns[i].p.state = "Unavailable"
      /\ \A i \in DOMAIN productRuns :
           productRuns[i].inst = dataLayer[k].by.inst
             => productRuns[i].p.state # "Ready"

(***************************************************************************)
(* C10.  Every invocation of the add-to-cart click handler opens the cart  *)
(* panel: with the sink missing or present, a variant selected or not, and *)
(* readiness Pending, Ready or Unavailable.                                *)
(***************************************************************************)
C10_ClickOpensCart ==
    [][clicks' = clicks + 1 => aside' = "cart"]_vars

\* the panel is open after a click that could push nothing: no sink
C10_Witness ==
    /\ clicks = 1
    /\ aside = "cart"
    /\ ~hasDataLayer
    /\ dataLayer = <<>>

(***************************************************************************)
(* C11.  As claimed: on the product page the effective identity is the     *)
(* page-local email when it is present and non-null, otherwise the         *)
(* ancestor-provided email when it is non-null, otherwise null, for every  *)
(* pair of emails drawn from absent, null, the empty string and non-empty  *)
(* strings.                                                                *)
(***************************************************************************)
C11_PageLocalWinsWhenNonNull ==
    call.fn = "userEmail" =>
      call.out = IF call.customerEmail \notin {Undefined, Null}
                 THEN call.customerEmail
                 ELSE IF call.root \notin {Undefined, Null}
                 THEN call.root
                 ELSE Null

(***************************************************************************)
(* C12.  In every record of the sink that carries user_type and user_email *)
(* (user_data_available, product_page_view, collection_page_view,          *)
(* add_to_cart) user_type is logged_in exactly when user_email is a        *)
(* non-null, non-empty string; otherwise user_type is visitor and          *)
(* user_email is null.                                                     *)
(***************************************************************************)
C12_UserTypeMatchesEmail ==
    \A k \in DOMAIN dataLayer :
      dataLayer[k].event \in {"user_data_available", "product_page_view",
                              "collection_page_view", "add_to_cart"}
      => \/ /\ dataLayer[k].user_type = "logged_in"
            /\ dataLayer[k].user_email \notin {Null, Undefined, ""}
         \/ /\ dataLayer[k].user_type = "visitor"
            /\ dataLayer[k].user_email = Null

\* the collection page of a customer whose root email is the empty string
\* has pushed its records
C12_Witness ==
    /\ rootEmail = ""
    /\ \E k \in DOMAIN dataLayer :
         /\ dataLayer[k].event = "collection_page_view"
         /\ dataLayer[k].user_type = "visitor"
         /\ dataLayer[k].user_email = Null

(***************************************************************************)
(* C13.  As claimed: every field of every product_page_view and            *)
(* collection_page_view record has a defined value; where the underlying   *)
(* data field (product title or vendor, collection handle or description,  *)
(* the variant, its title or its price) is absent, the record's field is   *)
(* null or the empty string, never undefined.                              *)
(***************************************************************************)
C13_ViewFieldsDefined ==
    /\ call.fn = "ProductThen" =>
         \A f \in {"page_type", "product_id", "product_title", "product_handle",
                   "product_vendor", "user_email", "user_type", "variant_id",
                   "variant_title", "price", "currency"} :
           call.out[2][f] # Undefined
    /\ call.fn = "CollectionThen" =>
         \A f \in {"page_type", "collection_id", "collection_handle",
                   "collection_title", "collection_description", "user_email",
                   "user_type"} :
           call.out[2][f] # Undefined

(***************************************************************************)
(* C20.  As claimed: when the customer is logged in and the customer       *)
(* query returns email e, the data the product route's loader returns      *)
(* contains customer.email = e and the page-local identity of Product is   *)
(* e; when the customer is not logged in or the query fails, the loader    *)
(* returns normally and the page-local identity is no email (null, read    *)
(* here as null or undefined).                                             *)
(***************************************************************************)
C20_LoaderCarriesCustomerEmail ==
    call.fn = "loader" =>
      IF /\ call.auth.isLoggedIn = "true"
         /\ call.auth.query \notin {"throws", Undefined, Null}
      THEN /\ Prop(call.out, "customer").tag = "object"
           /\ Prop(call.out, "customer").email = call.auth.query
           /\ PageLocalEmail(call.out) = call.auth.query
      ELSE (call.auth.isLoggedIn # "true" \/ call.auth.query = "throws")
             => PageLocalEmail(call.out) \in {Null, Undefined}

\* the indices of the scroll_depth records a step appends to the sink
NewScrollDepth(sink, sink2) ==
    {k \in DOMAIN sink2 : k > Len(sink) /\ sink2[k].event = "scroll_depth"}

(***************************************************************************)
(* C14.  A scroll_depth record with scroll_percentage = t is pushed only   *)
(* by a scroll evaluation (scroll event or forced evaluation) that         *)
(* computes a scrollPercentage >= t on a page whose scrollable height is   *)
(* not zero; an evaluation on a page of scrollable height 0 pushes nothing *)
(* and leaves the triggered set unchanged.                                 *)
(***************************************************************************)
C14_PushedOnlyWhenReached ==
    [][/\ \A k \in NewScrollDepth(dataLayer, dataLayer') :
            /\ scrollHeight' # 0
            /\ ScrollPercentage(scrollTop', scrollHeight')
                 >= dataLayer'[k].scroll_percentage
       /\ scrollHeight' = 0 =>
            /\ NewScrollDepth(dataLayer, dataLayer') = {}
            /\ triggeredThresholds' = triggeredThresholds]_vars

\* the forced evaluation of a Ready run has run on a page of height 0 and
\* has pushed nothing
C14_Witness ==
    /\ scrollHeight = 0
    /\ \E i \in DOMAIN scrollRuns :
         /\ scrollRuns[i].fired
         /\ gtmReadyRef[scrollRuns[i].inst]
         /\ triggeredThresholds[scrollRuns[i].inst] = {}
    /\ \A k \in DOMAIN dataLayer : dataLayer[k].event # "scroll_depth"

\* the thresholds of the tracker, as a set
ThresholdSet == {Thresholds[n] : n \in DOMAIN Thresholds}

\* the scroll_depth records a step appends for instance inst
NewOfInst(sink, sink2, inst) ==
    {k \in NewScrollDepth(sink, sink2) : sink2[k].by.inst = inst}

(***************************************************************************)
(* C15.  The scroll_depth records one scroll evaluation appends for a      *)
(* tracker are those of the thresholds it finds satisfied and not yet      *)
(* triggered, each once, contiguous in the sink and in ascending threshold *)
(* order; so an evaluation at a percentage below one seen before appends   *)
(* nothing.                                                                *)
(***************************************************************************)
C15_AscendingContiguousOnce ==
    [][\A inst \in Instances :
         LET K == NewOfInst(dataLayer, dataLayer', inst) IN
         K # {} =>
           /\ \A a, b \in K : \A m \in a..b : m \in K
           /\ \A a, b \in K :
                a < b => dataLayer'[a].scroll_percentage
                           < dataLayer'[b].scroll_percentage
           /\ {dataLayer'[k].scroll_percentage : k \in K}
                = {t \in ThresholdSet :
                     /\ ScrollPercentage(scrollTop', scrollHeight') >= t
                     /\ t \notin triggeredThresholds[inst]}]_vars

\* the spec's example: the page went to 80 percent and is back at 40
\* percent; the sink holds 25, 50, 75 of the tracker, in this order
C15_Witness ==
    /\ scrollHeight = 5
    /\ scrollTop = 2
    /\ scrollListeners # <<>>
    /\ triggeredThresholds[1] = {25, 50, 75}
    /\ LET K == ByInst(dataLayer, "scroll", 1)
           first == CHOOSE k \in K : \A m \in K : k <= m
       IN /\ K = first..(first + 2)
          /\ dataLayer[first].scroll_percentage = 25
          /\ dataLayer[first + 1].scroll_percentage = 50
          /\ dataLayer[first + 2].scroll_percentage = 75

(***************************************************************************)
(* C16.  As claimed: no scroll listener a tracker registered is attached   *)
(* after the cleanup of the effect run that created it has run (the        *)
(* cleanup of a re-run or of the unmount), also when the run's readiness   *)
(* wait resolves Ready only after that cleanup.                            *)
(***************************************************************************)
C16_NoDanglingListener ==
    \A n \in DOMAIN scrollListeners : ~scrollRuns[scrollListeners[n]].cleaned

(***************************************************************************)
(* C17.  As claimed: a navigation starts the scroll tracker with an empty  *)
(* triggered set, whether it mounts a new page or only changes the inputs  *)
(* of the mounted tracker so that its effect runs again: when a run of the *)
(* tracker's effect starts, the triggered set it works on is empty.        *)
(***************************************************************************)
C17_NavigationResetsTriggered ==
    [][Len(scrollRuns') > Len(scrollRuns) =>
         triggeredThresholds'[scrollRuns'[Len(scrollRuns')].inst] = {}]_vars

\* the thresholds whose scroll_depth record instance inst has pushed
PushedThresholds(sink, inst) ==
    {sink[k].scroll_percentage : k \in ByInst(sink, "scroll", inst)}

(***************************************************************************)
(* C18.  The triggered set of a scroll tracker instance is the set of the  *)
(* thresholds for which the instance has pushed a scroll_depth record      *)
(* since it was mounted: it is empty when the instance is mounted, and no  *)
(* step, an effect re-run included, removes an element.                    *)
(***************************************************************************)
C18_TriggeredIsPushed ==
    [][/\ \A inst \in Instances :
            /\ triggeredThresholds'[inst] = PushedThresholds(dataLayer', inst)
            /\ triggeredThresholds[inst] \subseteq triggeredThresholds'[inst]
       /\ mounts' # mounts => triggeredThresholds'[mounts'] = {}]_vars

\* an instance whose effect ran twice: the set grew under the first run
\* and again under the second, up to all thresholds
C18_Witness ==
    /\ Len(scrollRuns) = 2
    /\ scrollRuns[1].inst = scrollRuns[2].inst
    /\ ByRun(dataLayer, "scroll", 1) # {}
    /\ ByRun(dataLayer, "scroll", 2) # {}
    /\ triggeredThresholds[scrollRuns[1].inst] = ThresholdSet
    /\ PushedThresholds(dataLayer, scrollRuns[1].inst) = ThresholdSet

(***************************************************************************)
(* C19.  When the readiness wait of a run of the scroll tracker's effect   *)
(* has resolved Ready while the page, of non-zero scrollable height, is    *)
(* scrolled to a percentage p, then for every threshold t <= p a           *)
(* scroll_depth record of t is eventually in the sink, pushed at the       *)
(* latest by the run's forced evaluation, unless the page is scrolled back *)
(* below t before; no scroll signal is needed.                             *)
(***************************************************************************)
C19_ForcedEvaluationPushes ==
    \A i \in 1..MaxRuns : \A t \in ThresholdSet :
      (/\ i \in DOMAIN scrollRuns
       /\ scrollRuns[i].p.state = "Ready"
       /\ ~scrollRuns[i].fired
       /\ scrollHeight # 0
       /\ ScrollPercentage(scrollTop, scrollHeight) >= t)
      ~> (/\ i \in DOMAIN scrollRuns
          /\ scrollHeight # 0
          /\ \/ t \in PushedThresholds(dataLayer, scrollRuns[i].inst)
             \/ ScrollPercentage(scrollTop, scrollHeight) < t)

\* the forced evaluation of a run has found the page scrolled to its end
\* and has pushed all four thresholds
C19_Witness ==
    \E i \in DOMAIN scrollRuns :
      /\ scrollRuns[i].fired
      /\ scrollRuns[i].forced = {25, 50, 75, 100}
      /\ scrollTop = scrollHeight

=============================================================================
